---- MODULE Spec2Model ----
(***************************************************************************)
(* Smart Student Hub: the document review workflow, the row-level          *)
(* security policies of the three SQL scripts, the achievement score and   *)
(* the student search, as state machines over the Supabase store and the   *)
(* React component state.                                                  *)
(***************************************************************************)
EXTENDS Integers, Sequences, FiniteSets, TLC

\* SQL NULL / JavaScript null and undefined for id- and text-valued fields.
NULL == "null"

\* ------------------------------------------------------------------------
\* Bounds of the model
\* ------------------------------------------------------------------------
\* documents ever uploaded
MaxDocs == 2
\* value of the client clock (new Date()) at the last handleApproval call
MaxClock == 2

DocIds == 1..MaxDocs
\* rows of collaboration_requests ever inserted
MaxRequests == 1
RequestIds == 1..MaxRequests

\* ------------------------------------------------------------------------
\* Principals (auth.users) and the rows that give them a role
\* ------------------------------------------------------------------------
\* two students, two faculty, one placement officer, one user with no row
Users == {"uS1", "uS2", "uF1", "uF2", "uPO", "uNP"}
\* the users who sign up as students
Students == {"uS1", "uS2"}

ProfileIds == {"pS1", "pS2", "pF1", "pF2"}

\* values the approve form can submit: parseInt(points) || 0, 0..100
PointsInputs == {0, 25, 30}
\* values the reject form can submit (the textarea is `required`)
ReasonInputs == {"r1"}

VARIABLES
  policies,       \* row-level-security policies in force: <<table, name>>
  profiles,       \* public.profiles: profile id -> row
  documents,      \* public.documents: document id -> row
  storage,        \* storage.objects of bucket 'documents': <<folder, n>>
  nextDoc,        \* next fresh document id (gen_random_uuid)
  clock,          \* client time, advanced by every handleApproval call
  facultyProfile, \* DocumentApproval state: user -> profile id or NULL
  pendingDocs,    \* DocumentApproval state `documents`: user -> doc ids
  actionLoading,  \* DocumentApproval state: user -> doc id or 0
  inflight,       \* handleApproval calls awaiting the store's answer
  toast,          \* title of the toast shown last
  user,           \* useAuth().user of the session that runs the search
  component,      \* the search component mounted in that session
  students,       \* StudentSearch / PlacementDashboard state `students`
  filteredStudents, \* ... state `filteredStudents`
  filters,        \* ... searchTerm, selectedDepartment/College/Skill
  totalPoints,    \* AnalyticsDashboard state `totalPoints`: user -> number
  collaboration_requests, \* public.collaboration_requests: id -> row
  collab,         \* CollaborationRequests state of each browser session
  console,        \* the console message written last
  auth_users,     \* auth.users: user -> raw_user_meta_data->>'user_type'
  placement_officers, \* public.placement_officers: the user_id of each row
  creating        \* Dashboard.fetchProfile calls that found no profile

storeVars == <<policies, profiles, documents, storage, nextDoc>>
reviewVars == <<clock, facultyProfile, pendingDocs, actionLoading, inflight, toast>>
searchVars == <<user, component, students, filteredStudents, filters>>
pageVars == <<totalPoints, collaboration_requests, collab, console>>
authVars == <<auth_users, placement_officers, creating>>
vars == <<policies, profiles, documents, storage, nextDoc, clock,
          facultyProfile, pendingDocs, actionLoading, inflight, toast,
          user, component, students, filteredStudents, filters,
          totalPoints, collaboration_requests, collab, console,
          auth_users, placement_officers, creating>>

\* ------------------------------------------------------------------------
\* Row-level security
\* ------------------------------------------------------------------------
\* EXISTS (SELECT 1 FROM profiles WHERE user_id = auth.uid() AND user_type = 'faculty')
IsFaculty(uid) ==
  \E p \in DOMAIN profiles :
    profiles[p].user_id = uid /\ profiles[p].user_type = "faculty"

\* EXISTS (SELECT 1 FROM profiles WHERE id = student_id AND user_id = auth.uid())
OwnsProfile(uid, pid) ==
  pid \in DOMAIN profiles /\ profiles[pid].user_id = uid

\* the profile row of a user, or NULL (.eq('user_id', user.id).single())
ProfileOf(uid) ==
  IF \E p \in DOMAIN profiles : profiles[p].user_id = uid
  THEN CHOOSE p \in DOMAIN profiles : profiles[p].user_id = uid
  ELSE NULL

\* policies on public.documents: the command each one is FOR
DocPolicyCmd(name) ==
  CASE name = "Allow users to view own documents" -> "SELECT"
    [] name = "Allow faculty to view all documents" -> "SELECT"
    [] name = "Allow users to insert own documents" -> "INSERT"
    [] name = "Allow faculty to update document status" -> "UPDATE"
    [] name = "Users can view their own documents" -> "SELECT"
    [] name = "Users can upload documents" -> "INSERT"
    [] name = "Faculty can update documents" -> "UPDATE"
    [] name = "Users can delete their own documents" -> "DELETE"
    [] name = "Allow authenticated users to manage documents" -> "ALL"

\* policies on public.documents: the USING / WITH CHECK expression
DocPolicyUsing(name, uid, row) ==
  CASE name = "Allow users to view own documents" ->
         uid # NULL /\ OwnsProfile(uid, row.student_id)
    [] name = "Allow faculty to view all documents" ->
         uid # NULL /\ IsFaculty(uid)
    [] name = "Allow users to insert own documents" ->
         uid # NULL /\ OwnsProfile(uid, row.student_id)
    [] name = "Allow faculty to update document status" ->
         uid # NULL /\ IsFaculty(uid)
    [] name = "Users can view their own documents" ->
         uid # NULL /\ (OwnsProfile(uid, row.student_id) \/ IsFaculty(uid))
    [] name = "Users can upload documents" ->
         uid # NULL /\ OwnsProfile(uid, row.student_id)
    [] name = "Faculty can update documents" ->
         uid # NULL /\ IsFaculty(uid)
    [] name = "Users can delete their own documents" ->
         uid # NULL /\ OwnsProfile(uid, row.student_id)
    [] name = "Allow authenticated users to manage documents" ->
         uid # NULL

\* permissive policies are OR-ed; a FOR ALL policy applies to every command
DocAllowed(cmd, uid, row) ==
  \E pol \in policies :
    /\ pol[1] = "documents"
    /\ DocPolicyCmd(pol[2]) \in {cmd, "ALL"}
    /\ DocPolicyUsing(pol[2], uid, row)

\* policies on storage.objects
StoragePolicyCmd(name) ==
  CASE name = "Allow authenticated uploads" -> "INSERT"
    [] name = "Allow users to view own files" -> "SELECT"
    [] name = "Allow faculty to view all files" -> "SELECT"
    [] name = "Allow public downloads" -> "SELECT"
    [] name = "Allow authenticated file uploads" -> "INSERT"
    [] name = "Allow public file downloads" -> "SELECT"
    [] name = "Authenticated users can upload to own folder" -> "INSERT"
    [] name = "Users can view own files" -> "SELECT"
    [] name = "Public file downloads" -> "SELECT"
    [] name = "Users can update own files" -> "UPDATE"
    [] name = "Users can delete own files" -> "DELETE"

\* obj is <<folder, n>>: (storage.foldername(name))[1] is obj[1]
StoragePolicyUsing(name, uid, obj) ==
  CASE name = "Allow authenticated uploads" -> uid # NULL /\ obj[1] = uid
    [] name = "Allow users to view own files" -> uid # NULL /\ obj[1] = uid
    [] name = "Allow faculty to view all files" -> uid # NULL /\ IsFaculty(uid)
    [] name = "Allow public downloads" -> TRUE
    [] name = "Allow authenticated file uploads" -> uid # NULL /\ obj[1] = uid
    [] name = "Allow public file downloads" -> TRUE
    [] name = "Authenticated users can upload to own folder" ->
         uid # NULL /\ obj[1] = uid
    [] name = "Users can view own files" ->
         uid # NULL /\ (obj[1] = uid \/ IsFaculty(uid))
    [] name = "Public file downloads" -> TRUE
    [] name = "Users can update own files" -> uid # NULL /\ obj[1] = uid
    [] name = "Users can delete own files" -> uid # NULL /\ obj[1] = uid

StorageAllowed(cmd, uid, obj) ==
  \E pol \in policies :
    /\ pol[1] = "storage.objects"
    /\ StoragePolicyCmd(pol[2]) = cmd
    /\ StoragePolicyUsing(pol[2], uid, obj)

\* a mutant of ProfilePolicyUsing: "Users can view all profiles" USING (true)
\* kept in place of the privacy-respecting policy
ProfilePolicyUsing_ViewAll(name, uid, row) ==
  CASE name = "Users can view their own profile" -> uid = row.user_id
    [] name = "Users can view limited public profile data" -> TRUE
    [] name = "Users can view public profiles" -> TRUE
    [] name = "Users can update their own profile" -> uid = row.user_id
    [] name = "Users can insert their own profile" -> uid = row.user_id

\* policies on public.profiles (auth.uid() = user_id is false for NULL)
ProfilePolicyUsing(name, uid, row) ==
  CASE name = "Users can view their own profile" -> uid = row.user_id
    [] name = "Users can view limited public profile data" ->
         row.profile_visible /\ uid # NULL /\ uid # row.user_id
    [] name = "Users can view public profiles" ->
         row.profile_visible /\ uid # NULL /\ uid # row.user_id
    [] name = "Users can update their own profile" -> uid = row.user_id
    [] name = "Users can insert their own profile" -> uid = row.user_id

ProfilePolicyCmd(name) ==
  CASE name = "Users can view their own profile" -> "SELECT"
    [] name = "Users can view limited public profile data" -> "SELECT"
    [] name = "Users can view public profiles" -> "SELECT"
    [] name = "Users can update their own profile" -> "UPDATE"
    [] name = "Users can insert their own profile" -> "INSERT"

ProfileAllowed(cmd, uid, row) ==
  \E pol \in policies :
    /\ pol[1] = "profiles"
    /\ ProfilePolicyCmd(pol[2]) = cmd
    /\ ProfilePolicyUsing(pol[2], uid, row)

\* policies on public.collaboration_requests
RequestPolicyCmd(name) ==
  CASE name = "Users can view their own collaboration requests" -> "SELECT"
    [] name = "Users can create collaboration requests" -> "INSERT"
    [] name = "Users can update their received requests" -> "UPDATE"
    [] name = "Users can view their collaboration requests" -> "SELECT"
    [] name = "Users can update received requests" -> "UPDATE"
    [] name = "Users can delete their own requests" -> "DELETE"

\* a mutant of RequestPolicyUsing: the UPDATE policies test requester_id
RequestPolicyUsing_Requester(name, uid, row) ==
  CASE name = "Users can view their own collaboration requests" ->
         OwnsProfile(uid, row.requester_id) \/ OwnsProfile(uid, row.requested_id)
    [] name = "Users can create collaboration requests" ->
         uid # NULL /\ OwnsProfile(uid, row.requester_id)
    [] name = "Users can update their received requests" ->
         OwnsProfile(uid, row.requester_id)
    [] name = "Users can view their collaboration requests" ->
         /\ uid # NULL
         /\ OwnsProfile(uid, row.requester_id) \/ OwnsProfile(uid, row.requested_id)
    [] name = "Users can update received requests" ->
         uid # NULL /\ OwnsProfile(uid, row.requester_id)
    [] name = "Users can delete their own requests" ->
         uid # NULL /\ OwnsProfile(uid, row.requester_id)

\* the USING / WITH CHECK expressions; "Users can create collaboration
\* requests" is the name of the migration's and of the fix's INSERT policy,
\* whose expressions agree
RequestPolicyUsing(name, uid, row) ==
  CASE name = "Users can view their own collaboration requests" ->
         OwnsProfile(uid, row.requester_id) \/ OwnsProfile(uid, row.requested_id)
    [] name = "Users can create collaboration requests" ->
         uid # NULL /\ OwnsProfile(uid, row.requester_id)
    [] name = "Users can update their received requests" ->
         OwnsProfile(uid, row.requested_id)
    [] name = "Users can view their collaboration requests" ->
         /\ uid # NULL
         /\ OwnsProfile(uid, row.requester_id) \/ OwnsProfile(uid, row.requested_id)
    [] name = "Users can update received requests" ->
         uid # NULL /\ OwnsProfile(uid, row.requested_id)
    [] name = "Users can delete their own requests" ->
         uid # NULL /\ OwnsProfile(uid, row.requester_id)

RequestAllowed(cmd, uid, row) ==
  \E pol \in policies :
    /\ pol[1] = "collaboration_requests"
    /\ RequestPolicyCmd(pol[2]) = cmd
    /\ RequestPolicyUsing(pol[2], uid, row)

\* ------------------------------------------------------------------------
\* The three policy scripts
\* ------------------------------------------------------------------------
OnTable(t, names) == {<<t, n>> : n \in names}

\* the policies left by the migration (its last CREATE POLICY statements)
MigrationPolicies ==
  OnTable("documents", {"Allow users to view own documents",
                        "Allow faculty to view all documents",
                        "Allow users to insert own documents",
                        "Allow faculty to update document status"})
  \cup OnTable("profiles", {"Users can view their own profile",
                            "Users can view limited public profile data",
                            "Users can update their own profile",
                            "Users can insert their own profile"})
  \cup OnTable("storage.objects", {"Allow authenticated uploads",
                                   "Allow users to view own files",
                                   "Allow faculty to view all files",
                                   "Allow public downloads"})
  \cup OnTable("collaboration_requests",
              {"Users can view their own collaboration requests",
               "Users can create collaboration requests",
               "Users can update their received requests"})

CompleteFixDrops ==
  OnTable("documents", {"Allow users to view own documents",
                        "Allow faculty to view all documents",
                        "Allow users to insert own documents",
                        "Allow faculty to update document status",
                        "Students can view their own documents",
                        "Faculty can view all documents",
                        "Students can upload their own documents",
                        "Faculty can update document status",
                        "Users can view their own documents",
                        "Users can upload documents",
                        "Faculty can update documents",
                        "Users can delete their own documents"})
  \cup OnTable("profiles", {"Users can view their own profile",
                            "Users can view limited public profile data",
                            "Users can update their own profile",
                            "Users can insert their own profile",
                            "Users can view all profiles"})
  \cup OnTable("storage.objects", {"Allow authenticated uploads",
                                   "Allow users to view own files",
                                   "Allow faculty to view all files",
                                   "Allow public downloads",
                                   "Authenticated users can upload",
                                   "Authenticated users can view files",
                                   "Users can update own files",
                                   "Users can delete own files",
                                   "Students can upload their own documents",
                                   "Users can view their own documents",
                                   "Faculty can view all documents",
                                   "Authenticated users can upload to own folder",
                                   "Users can view own files",
                                   "Public file downloads"})
  \cup OnTable("collaboration_requests",
              {"Users can view their own collaboration requests",
               "Users can create collaboration requests",
               "Users can update their received requests"})

CompleteFixCreates ==
  OnTable("documents", {"Users can view their own documents",
                        "Users can upload documents",
                        "Faculty can update documents",
                        "Users can delete their own documents"})
  \cup OnTable("profiles", {"Users can view their own profile",
                            "Users can view public profiles",
                            "Users can update their own profile",
                            "Users can insert their own profile"})
  \cup OnTable("storage.objects", {"Authenticated users can upload to own folder",
                                   "Users can view own files",
                                   "Public file downloads",
                                   "Users can update own files",
                                   "Users can delete own files"})
  \cup OnTable("collaboration_requests",
              {"Users can view their collaboration requests",
               "Users can create collaboration requests",
               "Users can update received requests",
               "Users can delete their own requests"})

QuickFixDrops ==
  OnTable("storage.objects", {"Students can upload their own documents",
                              "Users can view their own documents",
                              "Faculty can view all documents",
                              "Allow authenticated uploads",
                              "Allow users to view own files",
                              "Allow faculty to view all files",
                              "Allow public downloads"})
  \cup OnTable("documents", {"Students can view their own documents",
                             "Faculty can view all documents",
                             "Students can upload their own documents",
                             "Faculty can update document status",
                             "Allow users to view own documents",
                             "Allow faculty to view all documents",
                             "Allow users to insert own documents",
                             "Allow faculty to update document status"})

\* the policies of a database set up with COMPLETE_RLS_FIX.sql
CompleteFixPolicies == (MigrationPolicies \ CompleteFixDrops) \cup CompleteFixCreates

QuickFixCreates ==
  OnTable("storage.objects", {"Allow authenticated file uploads",
                              "Allow users to view own files",
                              "Allow public file downloads"})
  \cup OnTable("documents", {"Allow authenticated users to manage documents"})

\* A script is one batch: DROP POLICY IF EXISTS never fails, CREATE POLICY
\* fails when the name is still there, and a failed batch changes nothing.
RunScript(drops, creates) ==
  /\ (policies \ drops) \cap creates = {}
  /\ policies' = (policies \ drops) \cup creates

RunCompleteRlsFix ==
  /\ RunScript(CompleteFixDrops, CompleteFixCreates)
  /\ UNCHANGED <<profiles, documents, storage, nextDoc>>
  /\ UNCHANGED reviewVars
  /\ UNCHANGED searchVars
  /\ UNCHANGED authVars
  /\ UNCHANGED pageVars

RunQuickFixStorage ==
  /\ RunScript(QuickFixDrops, QuickFixCreates)
  /\ UNCHANGED <<profiles, documents, storage, nextDoc>>
  /\ UNCHANGED reviewVars
  /\ UNCHANGED searchVars
  /\ UNCHANGED authVars
  /\ UNCHANGED pageVars

\* ------------------------------------------------------------------------
\* Score aggregation
\* ------------------------------------------------------------------------
RECURSIVE SumPoints(_, _)
\* SUM(points_awarded) over a set of rows of the table docs
SumPoints(docs, rows) ==
  IF rows = {} THEN 0
  ELSE LET d == CHOOSE x \in rows : TRUE
       IN docs[d].points_awarded + SumPoints(docs, rows \ {d})

\* a mutant of AchievementPoints: the WHERE clause lost its student_id test
AchievementPoints_AnyStudent(docs, student_profile_id) ==
  LET rows == {d \in DOMAIN docs :
                 /\ docs[d].status = "approved"
                 /\ docs[d].points_awarded > 0}
  IN IF rows = {} THEN 0 ELSE SumPoints(docs, rows)

\* SELECT COALESCE(SUM(points_awarded), 0) FROM documents WHERE ...
AchievementPoints(docs, student_profile_id) ==
  LET rows == {d \in DOMAIN docs :
                 /\ docs[d].student_id = student_profile_id
                 /\ docs[d].status = "approved"
                 /\ docs[d].points_awarded > 0}
  IN IF rows = {} THEN 0 ELSE SumPoints(docs, rows)

\* the function over the current table (SECURITY DEFINER: no row policies)
get_student_achievement_points(student_profile_id) ==
  AchievementPoints(documents, student_profile_id)

\* a mutant of getPointsLevel: the thresholds are exclusive
getPointsLevel_Exclusive(points) ==
  IF points > 1000 THEN "Expert"
  ELSE IF points > 500 THEN "Advanced"
  ELSE IF points > 200 THEN "Intermediate"
  ELSE IF points > 50 THEN "Beginner"
  ELSE "Newcomer"

getPointsLevel(points) ==
  IF points >= 1000 THEN "Expert"
  ELSE IF points >= 500 THEN "Advanced"
  ELSE IF points >= 200 THEN "Intermediate"
  ELSE IF points >= 50 THEN "Beginner"
  ELSE "Newcomer"

\* ------------------------------------------------------------------------
\* DocumentUpload
\* ------------------------------------------------------------------------
\* the row INSERT stores for handleFileUpload's documentData: the column
\* defaults give status 'pending', points_awarded 0 and the NULLs
NewDocument(student_id, file) ==
  [student_id |-> student_id, status |-> "pending", approved_by |-> NULL,
   approved_at |-> 0, rejection_reason |-> NULL, points_awarded |-> 0,
   file |-> file]

NoToast == NULL

NoMessage == NULL

StorageDeleteWarning == "Storage delete error (file may not exist)"

WithRow(docs, d, row) ==
  [x \in DOMAIN docs \cup {d} |-> IF x = d THEN row ELSE docs[x]]

WithoutRow(docs, d) == [x \in DOMAIN docs \ {d} |-> docs[x]]

\* the Documents tab is shown to every user the Dashboard has a profile for
handleFileUpload(u) ==
  LET profile == ProfileOf(u)
      file == <<u, nextDoc>>
      row == NewDocument(profile, file)
  IN /\ profile # NULL
     /\ nextDoc <= MaxDocs
     /\ IF ~StorageAllowed("INSERT", u, file)
        THEN \* uploadError: nothing stored
             /\ toast' = "Upload failed"
             /\ UNCHANGED <<documents, storage, nextDoc>>
        ELSE IF DocAllowed("INSERT", u, row) /\ DocAllowed("SELECT", u, row)
        THEN /\ storage' = storage \cup {file}
             /\ documents' = WithRow(documents, nextDoc, row)
             /\ nextDoc' = nextDoc + 1
             /\ toast' = "Document uploaded"
        ELSE \* dbError: try to clean up the uploaded file
             /\ storage' = IF StorageAllowed("DELETE", u, file)
                           THEN storage \ {file} ELSE storage \cup {file}
             /\ toast' = "Upload failed"
             /\ UNCHANGED <<documents, nextDoc>>
     /\ UNCHANGED <<policies, profiles>>
     /\ UNCHANGED <<clock, facultyProfile, pendingDocs, actionLoading, inflight>>
     /\ UNCHANGED searchVars
     /\ UNCHANGED authVars
     /\ UNCHANGED pageVars

\* rows of the DocumentUpload list: fetchDocuments, own rows the policies show
OwnDocuments(u) ==
  {d \in DOMAIN documents :
     /\ documents[d].student_id = ProfileOf(u)
     /\ DocAllowed("SELECT", u, documents[d])}

\* a mutant of handleDeleteDocument: the file is removed without a DELETE
\* policy on storage.objects
handleDeleteDocument_NoStoragePolicy(u, d, storageError) ==
  /\ ProfileOf(u) # NULL
  /\ d \in OwnDocuments(u)
  \* DELETE removes the rows the DELETE and SELECT policies let through and
  \* reports no error when that is none
  /\ documents' = IF DocAllowed("DELETE", u, documents[d])
                  THEN WithoutRow(documents, d) ELSE documents
  \* storage.remove takes the object away whatever the policies say
  /\ storage' = IF ~storageError
                THEN storage \ {documents[d].file} ELSE storage
  \* console.warn, and no throw: the record is already deleted
  /\ console' = IF storageError THEN StorageDeleteWarning ELSE console
  /\ toast' = "Document deleted"
  /\ UNCHANGED <<policies, profiles, nextDoc>>
  /\ UNCHANGED <<clock, facultyProfile, pendingDocs, actionLoading, inflight>>
  /\ UNCHANGED searchVars
  /\ UNCHANGED authVars
  /\ UNCHANGED <<totalPoints, collaboration_requests, collab>>

\* a mutant of handleDeleteDocument: the storage error is thrown
handleDeleteDocument_Throws(u, d, storageError) ==
  /\ ProfileOf(u) # NULL
  /\ d \in OwnDocuments(u)
  \* DELETE removes the rows the DELETE and SELECT policies let through and
  \* reports no error when that is none
  /\ documents' = IF DocAllowed("DELETE", u, documents[d])
                  THEN WithoutRow(documents, d) ELSE documents
  \* storage.remove likewise skips objects the caller may not delete; when
  \* the storage service answers with an error the file stays
  /\ storage' = IF ~storageError /\ StorageAllowed("DELETE", u, documents[d].file)
                THEN storage \ {documents[d].file} ELSE storage
  \* console.warn, and no throw: the record is already deleted
  /\ console' = IF storageError THEN StorageDeleteWarning ELSE console
  /\ toast' = IF storageError THEN "Delete failed" ELSE "Document deleted"
  /\ UNCHANGED <<policies, profiles, nextDoc>>
  /\ UNCHANGED <<clock, facultyProfile, pendingDocs, actionLoading, inflight>>
  /\ UNCHANGED searchVars
  /\ UNCHANGED authVars
  /\ UNCHANGED <<totalPoints, collaboration_requests, collab>>

\* the Delete button of a row of the DocumentUpload list
handleDeleteDocument(u, d, storageError) ==
  /\ ProfileOf(u) # NULL
  /\ d \in OwnDocuments(u)
  \* DELETE removes the rows the DELETE and SELECT policies let through and
  \* reports no error when that is none
  /\ documents' = IF DocAllowed("DELETE", u, documents[d])
                  THEN WithoutRow(documents, d) ELSE documents
  \* storage.remove likewise skips objects the caller may not delete; when
  \* the storage service answers with an error the file stays
  /\ storage' = IF ~storageError /\ StorageAllowed("DELETE", u, documents[d].file)
                THEN storage \ {documents[d].file} ELSE storage
  \* console.warn, and no throw: the record is already deleted
  /\ console' = IF storageError THEN StorageDeleteWarning ELSE console
  /\ toast' = "Document deleted"
  /\ UNCHANGED <<policies, profiles, nextDoc>>
  /\ UNCHANGED <<clock, facultyProfile, pendingDocs, actionLoading, inflight>>
  /\ UNCHANGED searchVars
  /\ UNCHANGED authVars
  /\ UNCHANGED <<totalPoints, collaboration_requests, collab>>

\* the insert of handleFileUpload sent by user u with values of u's choosing:
\* the WITH CHECK policies decide, the table defaults are overridden, and no
\* file is stored
insertDocument(u, student_id, status, points) ==
  LET row == [NewDocument(student_id, <<u, nextDoc>>)
                EXCEPT !.status = status, !.points_awarded = points]
  IN /\ nextDoc <= MaxDocs
     /\ IF DocAllowed("INSERT", u, row)
        THEN /\ documents' = WithRow(documents, nextDoc, row)
             /\ nextDoc' = nextDoc + 1
        ELSE UNCHANGED <<documents, nextDoc>>
     /\ UNCHANGED <<policies, profiles, storage>>
     /\ UNCHANGED reviewVars
     /\ UNCHANGED searchVars
     /\ UNCHANGED authVars
     /\ UNCHANGED pageVars

\* ------------------------------------------------------------------------
\* DocumentApproval
\* ------------------------------------------------------------------------
\* Dashboard renders the Approvals tab when profile.user_type is 'faculty'
ApprovalsTabShown(u) == IsFaculty(u)

\* .from('documents').select(...).eq('status', 'pending') as user u
PendingDocuments(docs, u) ==
  {d \in DOMAIN docs :
     docs[d].status = "pending" /\ DocAllowed("SELECT", u, docs[d])}

\* the effect run when DocumentApproval is mounted (the Approvals tab is
\* opened): fetchFacultyProfile() and fetchPendingDocuments()
DocumentApprovalMount(u) ==
  /\ ApprovalsTabShown(u)
  /\ facultyProfile' = [facultyProfile EXCEPT ![u] = ProfileOf(u)]
  /\ pendingDocs' = [pendingDocs EXCEPT ![u] = PendingDocuments(documents, u)]
  /\ UNCHANGED storeVars
  /\ UNCHANGED <<clock, actionLoading, inflight, toast>>
  /\ UNCHANGED searchVars
  /\ UNCHANGED authVars
  /\ UNCHANGED pageVars

\* JavaScript truthiness of the optional arguments
TruthyText(t) == t # NULL /\ t # ""
TruthyNumber(n) == n # 0

\* a mutant of ApprovalUpdate: points_awarded is left out of the update
ApprovalUpdate_NoPoints(row, r) ==
  [row EXCEPT
     !.status = IF r.approved THEN "approved" ELSE "rejected",
     !.approved_by = r.by,
     !.approved_at = r.at,
     !.rejection_reason = IF TruthyText(r.reason) THEN r.reason ELSE @]

\* the object passed to .update(): absent keys leave the column as it is
ApprovalUpdate(row, r) ==
  [row EXCEPT
     !.status = IF r.approved THEN "approved" ELSE "rejected",
     !.approved_by = r.by,
     !.approved_at = r.at,
     !.rejection_reason = IF TruthyText(r.reason) THEN r.reason ELSE @,
     !.points_awarded = IF r.approved /\ TruthyNumber(r.points)
                        THEN r.points ELSE @]

\* handleApproval up to its await: the button of a listed document is
\* clicked, actionLoading is set and the update request is sent
handleApproval(u, d, approved, reason, points) ==
  /\ ApprovalsTabShown(u)
  /\ facultyProfile[u] # NULL
  /\ d \in pendingDocs[u]
  /\ actionLoading[u] # d
  /\ clock < MaxClock
  /\ clock' = clock + 1
  /\ actionLoading' = [actionLoading EXCEPT ![u] = d]
  /\ inflight' = inflight \cup
       {[who |-> u, doc |-> d, approved |-> approved, reason |-> reason,
         points |-> points, by |-> facultyProfile[u], at |-> clock + 1,
         raced |-> FALSE]}
  /\ UNCHANGED storeVars
  /\ UNCHANGED <<facultyProfile, pendingDocs, toast>>
  /\ UNCHANGED searchVars
  /\ UNCHANGED authVars
  /\ UNCHANGED pageVars

\* UPDATE ... WHERE id = documentId as user r.who: the row is changed when
\* the UPDATE and SELECT policies let it through; no error otherwise
DocumentsAfterUpdate(docs, r) ==
  IF /\ r.doc \in DOMAIN docs
     /\ DocAllowed("UPDATE", r.who, docs[r.doc])
     /\ DocAllowed("SELECT", r.who, docs[r.doc])
  THEN [docs EXCEPT ![r.doc] = ApprovalUpdate(@, r)]
  ELSE docs

\* history: the requests that were in flight on a pending document when
\* another reviewer's update of that document was applied
MarkRaced(reqs, r) ==
  IF /\ r.doc \in DOMAIN documents
     /\ documents[r.doc].status = "pending"
     /\ DocumentsAfterUpdate(documents, r) # documents
  THEN {IF q.doc = r.doc /\ q.who # r.who THEN [q EXCEPT !.raced = TRUE] ELSE q
          : q \in reqs}
  ELSE reqs

\* the store applies the update and handleApproval resumes: the update
\* returns no error, so the success toast is shown, the list is fetched
\* again and actionLoading is cleared
handleApprovalResume(r) ==
  /\ r \in inflight
  /\ documents' = DocumentsAfterUpdate(documents, r)
  /\ toast' = IF r.approved THEN "Document approved" ELSE "Document rejected"
  /\ pendingDocs' = [pendingDocs EXCEPT ![r.who] =
                       PendingDocuments(DocumentsAfterUpdate(documents, r), r.who)]
  /\ actionLoading' = [actionLoading EXCEPT ![r.who] = 0]
  /\ inflight' = MarkRaced(inflight \ {r}, r)
  /\ UNCHANGED <<policies, profiles, storage, nextDoc>>
  /\ UNCHANGED <<clock, facultyProfile>>
  /\ UNCHANGED searchVars
  /\ UNCHANGED authVars
  /\ UNCHANGED pageVars

\* ------------------------------------------------------------------------
\* Requests sent to the store outside the components
\* ------------------------------------------------------------------------
\* .from('documents').update({...}).eq('id', d) sent with the session of any
\* signed-in user u: the request handleApproval sends, decided by the row
\* policies alone
updateDocument(u, d, approved, reason, points) ==
  LET r == [who |-> u, doc |-> d, approved |-> approved, reason |-> reason,
            points |-> points, by |-> ProfileOf(u), at |-> clock + 1,
            raced |-> FALSE]
  IN /\ d \in DOMAIN documents
     /\ clock < MaxClock
     /\ clock' = clock + 1
     /\ documents' = DocumentsAfterUpdate(documents, r)
     /\ UNCHANGED <<policies, profiles, storage, nextDoc>>
     /\ UNCHANGED <<facultyProfile, pendingDocs, actionLoading, inflight, toast>>
     /\ UNCHANGED searchVars
     /\ UNCHANGED authVars
     /\ UNCHANGED pageVars

\* UPDATE profiles SET privacy_settings = jsonb_set(privacy_settings, key, value)
\* WHERE user_id = u, sent with the session of u (no component has a control
\* for it): "Users can update their own profile" decides
updatePrivacySettings(u, key, value) ==
  LET p == ProfileOf(u)
  IN /\ p # NULL
     /\ profiles[p][key] # value
     /\ profiles' = IF /\ ProfileAllowed("UPDATE", u, profiles[p])
                       /\ ProfileAllowed("SELECT", u, profiles[p])
                    THEN [profiles EXCEPT ![p][key] = value]
                    ELSE profiles
     /\ UNCHANGED <<policies, documents, storage, nextDoc>>
     /\ UNCHANGED reviewVars
     /\ UNCHANGED searchVars
     /\ UNCHANGED authVars
     /\ UNCHANGED pageVars

\* ------------------------------------------------------------------------
\* Text: a string is a sequence of characters
\* ------------------------------------------------------------------------
UpperCaseLetters ==
  <<"A", "B", "C", "D", "E", "F", "G", "H", "I", "J", "K", "L", "M",
    "N", "O", "P", "Q", "R", "S", "T", "U", "V", "W", "X", "Y", "Z">>
LowerCaseLetters ==
  <<"a", "b", "c", "d", "e", "f", "g", "h", "i", "j", "k", "l", "m",
    "n", "o", "p", "q", "r", "s", "t", "u", "v", "w", "x", "y", "z">>

IsUpperCase(c) == \E i \in DOMAIN UpperCaseLetters : UpperCaseLetters[i] = c

\* position of a letter in the alphabet, 0 for any other character
LetterIndex(c) ==
  IF \E i \in DOMAIN LowerCaseLetters : c \in {LowerCaseLetters[i], UpperCaseLetters[i]}
  THEN CHOOSE i \in DOMAIN LowerCaseLetters :
         c \in {LowerCaseLetters[i], UpperCaseLetters[i]}
  ELSE 0

\* String.prototype.toLowerCase
toLowerCase(t) ==
  [i \in 1..Len(t) |->
     IF IsUpperCase(t[i]) THEN LowerCaseLetters[LetterIndex(t[i])] ELSE t[i]]

\* String.prototype.includes
includes(t, s) ==
  \E k \in 0..(Len(t) - Len(s)) : \A i \in 1..Len(s) : t[k + i] = s[i]

\* String.prototype.localeCompare on letters: the letters are compared first
\* without their case, and a lower-case letter sorts before its upper-case
\* form when nothing else differs
localeCompare(a, b) ==
  LET n == IF Len(a) < Len(b) THEN Len(a) ELSE Len(b)
      letterDiff == {i \in 1..n : LetterIndex(a[i]) # LetterIndex(b[i])}
      caseDiff == {i \in 1..n : a[i] # b[i]}
      first(S) == CHOOSE i \in S : \A j \in S : i <= j
  IN IF letterDiff # {}
     THEN IF LetterIndex(a[first(letterDiff)]) < LetterIndex(b[first(letterDiff)])
          THEN -1 ELSE 1
     ELSE IF Len(a) # Len(b)
     THEN IF Len(a) < Len(b) THEN -1 ELSE 1
     ELSE IF caseDiff # {}
     THEN IF IsUpperCase(b[first(caseDiff)]) THEN -1 ELSE 1
     ELSE 0

\* ------------------------------------------------------------------------
\* StudentSearch and PlacementDashboard
\* ------------------------------------------------------------------------
\* public.student_skills joined with public.skills: the skills of the students
student_skills ==
  {[student_id |-> "pS1", skill_name |-> <<"G", "o">>],
   [student_id |-> "pS2", skill_name |-> <<"S", "Q", "L">>]}

\* a mutant of StudentSkillAllowed: the first policy of the migration,
\* "Anyone can view student skills", is still in place
StudentSkillAllowed_Anyone(uid, row) == TRUE

\* the SELECT policies of student_skills, the same in the migration and in
\* COMPLETE_RLS_FIX.sql: the owner, or any signed-in user when skills_visible
StudentSkillAllowed(uid, row) ==
  \/ uid # NULL /\ OwnsProfile(uid, row.student_id)
  \/ /\ uid # NULL
     /\ row.student_id \in DOMAIN profiles
     /\ profiles[row.student_id].skills_visible

\* public.placement_officers: the users with a row there
PlacementOfficers == {"uPO"}

\* no search component is mounted
NoComponent == "none"

\* the value of a select that selects nothing: 'all' in StudentSearch, "" in
\* PlacementDashboard
NoDepartment(c) == IF c = "PlacementDashboard" THEN "" ELSE "all"
NoSkill(c) == IF c = "PlacementDashboard" THEN <<>> ELSE <<"a", "l", "l">>

\* values the search box and the three selects can be given
SearchTerms == {<<>>, <<"g", "o">>}

\* the state of a component that has just been mounted
DefaultFilters(c) ==
  [searchTerm |-> <<>>, department |-> NoDepartment(c),
   college |-> NoDepartment(c), skill |-> NoSkill(c)]

\* .from('profiles').select('*, student_skills(...)').eq('user_type',
\* 'student').eq('privacy_settings->profile_visible', 'true') as user u
StudentProfiles(u) ==
  {p \in DOMAIN profiles :
     /\ profiles[p].user_type = "student"
     /\ profiles[p].profile_visible
     /\ ProfileAllowed("SELECT", u, profiles[p])}

\* the embedded rows of a student_skills table the policies let u see
EmbeddedSkillsIn(table, u, p) ==
  {s.skill_name : s \in {x \in table :
                           x.student_id = p /\ StudentSkillAllowed(u, x)}}

\* the embedded student_skills rows the policies let u see
EmbeddedSkills(u, p) == EmbeddedSkillsIn(student_skills, u, p)

\* StudentSearch: .from('documents').select('points_awarded').eq('student_id',
\* id).eq('status', 'approved') as user u, summed with reduce
VisiblePoints(u, p) ==
  LET rows == {d \in DOMAIN documents :
                 /\ documents[d].student_id = p
                 /\ documents[d].status = "approved"
                 /\ DocAllowed("SELECT", u, documents[d])}
  IN IF rows = {} THEN 0 ELSE SumPoints(documents, rows)

\* one element of studentsWithPoints
StudentRow(u, p, points) ==
  [id |-> p, user_id |-> profiles[p].user_id,
   full_name |-> profiles[p].full_name, email |-> profiles[p].email,
   bio |-> profiles[p].bio, department |-> profiles[p].department,
   college |-> profiles[p].college,
   profile_visible |-> profiles[p].profile_visible,
   skills |-> EmbeddedSkills(u, p), achievement_points |-> points]

\* the orders in which a SELECT without ORDER BY can return a set of rows
RowOrders(S) ==
  {o \in [1..Cardinality(S) -> S] :
     \A i, j \in 1..Cardinality(S) : i # j => o[i] # o[j]}

\* a mutant of CompareStudents: the tie-break on the name is lost
CompareStudents_PointsOnly(a, b) ==
  b.achievement_points - a.achievement_points

\* the comparator of filtered.sort
CompareStudents(a, b) ==
  IF b.achievement_points # a.achievement_points
  THEN b.achievement_points - a.achievement_points
  ELSE localeCompare(a.full_name, b.full_name)

\* Array.prototype.sort is stable: x goes before the first row that sorts
\* after it
SortedInsert(s, x) ==
  LET later == {i \in 1..Len(s) : CompareStudents(s[i], x) > 0}
      k == IF later = {} THEN Len(s) + 1
           ELSE CHOOSE i \in later : \A j \in later : i <= j
  IN SubSeq(s, 1, k - 1) \o <<x>> \o SubSeq(s, k, Len(s))

RECURSIVE SortStudents(_)
SortStudents(s) ==
  IF s = <<>> THEN <<>>
  ELSE SortedInsert(SortStudents(SubSeq(s, 1, Len(s) - 1)), s[Len(s)])

\* the four filters of filterStudents, before the sort
MatchingStudents(list, f, c) ==
  LET term == toLowerCase(f.searchTerm)
      matchesTerm(row) ==
        \/ f.searchTerm = <<>>
        \/ includes(toLowerCase(row.full_name), term)
        \/ includes(toLowerCase(row.email), term)
        \/ includes(toLowerCase(row.bio), term)
        \/ \E sk \in row.skills : includes(toLowerCase(sk), term)
      matches(row) ==
        /\ matchesTerm(row)
        /\ f.department = NoDepartment(c) \/ row.department = f.department
        /\ f.college = NoDepartment(c) \/ row.college = f.college
        /\ f.skill = NoSkill(c) \/ f.skill \in row.skills
  IN SelectSeq(list, matches)

\* filterStudents: the new value of filteredStudents
filterStudents(list, f, c) == SortStudents(MatchingStudents(list, f, c))

\* filterStudents sorts in place: with no filter active `filtered` is the
\* array held in `students`, which is then sorted too
StudentsAfterFilter(list, f, c) ==
  IF f = DefaultFilters(c) THEN SortStudents(list) ELSE list

\* the effect that runs filterStudents when a filter or `students` changed
FilterEffect(c, list, f) ==
  /\ component' = c
  /\ filters' = f
  /\ students' = StudentsAfterFilter(list, f, c)
  /\ filteredStudents' = filterStudents(list, f, c)
  /\ UNCHANGED user
  /\ UNCHANGED storeVars
  /\ UNCHANGED reviewVars
  /\ UNCHANGED pageVars
  /\ UNCHANGED authVars

\* the Search tab of the Dashboard is opened: StudentSearch is mounted with
\* its initial state, fetchStudents runs and then the filter effect
StudentSearchMount ==
  /\ user # NULL
  /\ ProfileOf(user) # NULL
  /\ \E order \in RowOrders(StudentProfiles(user)) :
       FilterEffect("StudentSearch",
                    [i \in DOMAIN order |->
                       StudentRow(user, order[i], VisiblePoints(user, order[i]))],
                    DefaultFilters("StudentSearch"))

\* PlacementDashboard is opened by a placement officer: fetchProfile, then
\* fetchStudents with the points of rpc('get_student_achievement_points')
PlacementDashboardMount ==
  /\ user # NULL
  /\ user \in PlacementOfficers
  /\ \E order \in RowOrders(StudentProfiles(user)) :
       FilterEffect("PlacementDashboard",
                    [i \in DOMAIN order |->
                       StudentRow(user, order[i],
                                  get_student_achievement_points(order[i]))],
                    DefaultFilters("PlacementDashboard"))

\* the options of the selects: the values found in the fetched rows
DepartmentOptions == {students[i].department : i \in DOMAIN students}
CollegeOptions == {students[i].college : i \in DOMAIN students}
SkillOptions == UNION {students[i].skills : i \in DOMAIN students}

setSearchTerm(t) ==
  /\ component # NoComponent
  /\ t # filters.searchTerm
  /\ FilterEffect(component, students, [filters EXCEPT !.searchTerm = t])

setSelectedDepartment(x) ==
  /\ component # NoComponent
  /\ x \in DepartmentOptions \cup {NoDepartment(component)}
  /\ x # filters.department
  /\ FilterEffect(component, students, [filters EXCEPT !.department = x])

setSelectedCollege(x) ==
  /\ component # NoComponent
  /\ x \in CollegeOptions \cup {NoDepartment(component)}
  /\ x # filters.college
  /\ FilterEffect(component, students, [filters EXCEPT !.college = x])

setSelectedSkill(x) ==
  /\ component # NoComponent
  /\ x \in SkillOptions \cup {NoSkill(component)}
  /\ x # filters.skill
  /\ FilterEffect(component, students, [filters EXCEPT !.skill = x])

\* PlacementDashboard's "Clear Filters" button
clearFilters ==
  /\ component # NoComponent
  /\ component = "PlacementDashboard"
  /\ filters # DefaultFilters(component)
  /\ FilterEffect(component, students, DefaultFilters(component))

\* ------------------------------------------------------------------------
\* AnalyticsDashboard
\* ------------------------------------------------------------------------
\* the Analytics tab is shown to students; its effect runs fetchTotalPoints:
\* setTotalPoints(data || 0) with the answer of the rpc
AnalyticsDashboardMount(u) ==
  LET profile == ProfileOf(u)
  IN /\ profile # NULL
     /\ profiles[profile].user_type = "student"
     /\ totalPoints' = [totalPoints EXCEPT
                          ![u] = get_student_achievement_points(profile)]
     /\ UNCHANGED <<collaboration_requests, collab, console>>
     /\ UNCHANGED storeVars
     /\ UNCHANGED reviewVars
     /\ UNCHANGED searchVars
     /\ UNCHANGED authVars

\* const level = getPointsLevel(totalPoints), as rendered for user u
level(u) == getPointsLevel(totalPoints[u])

\* ------------------------------------------------------------------------
\* CollaborationRequests
\* ------------------------------------------------------------------------
\* browser sessions: uS2 is signed in in two tabs
Sessions == {"sD", "sE", "sE2", "sT"}

SessionUser(s) ==
  CASE s = "sD" -> "uS1" [] s = "sE" -> "uS2" [] s = "sE2" -> "uS2"
    [] s = "sT" -> "uF1"

\* the component before its effect has run
NotMounted == [mounted |-> FALSE, requests |-> {}, students |-> {}]

\* a new row of collaboration_requests: status DEFAULT 'pending'
NewRequest(requester_id, requested_id) ==
  [requester_id |-> requester_id, requested_id |-> requested_id,
   status |-> "pending"]

\* the decisions the Accept and Decline buttons pass to updateRequestStatus
StatusInputs == {"accepted", "declined"}

\* fetchRequests: the rows naming the profile that the SELECT policies show
FetchedRequests(table, u, profile) ==
  {[id |-> i, requester_id |-> table[i].requester_id,
    requested_id |-> table[i].requested_id, status |-> table[i].status] :
     i \in {j \in DOMAIN table :
              /\ table[j].requester_id = profile \/ table[j].requested_id = profile
              /\ RequestAllowed("SELECT", u, table[j])}}

\* fetchStudents: the student profiles other than the caller's own
FetchedStudents(u, profile) ==
  {p \in DOMAIN profiles :
     /\ profiles[p].user_type = "student"
     /\ p # profile
     /\ ProfileAllowed("SELECT", u, profiles[p])}

\* the effect run when the Collaborate tab is opened in session s
CollaborationRequestsMount(s) ==
  LET u == SessionUser(s)
      profile == ProfileOf(u)
  IN /\ profile # NULL
     /\ collab' = [collab EXCEPT
                     ![s] = [mounted |-> TRUE,
                             requests |-> FetchedRequests(collaboration_requests,
                                                          u, profile),
                             students |-> FetchedStudents(u, profile)]]
     /\ UNCHANGED <<totalPoints, collaboration_requests, console>>
     /\ UNCHANGED storeVars
     /\ UNCHANGED reviewVars
     /\ UNCHANGED searchVars
     /\ UNCHANGED authVars

\* .from('collaboration_requests').insert(row).select() as user u: the
\* table after the request, and whether the store answered with an error.
\* The table has no constraint on requester_id and requested_id other than
\* NOT NULL.
InsertAccepted(u, row) ==
  RequestAllowed("INSERT", u, row) /\ RequestAllowed("SELECT", u, row)

\* createRequest of session s with the student chosen in the dialog
createRequest(s, requestedId) ==
  LET u == SessionUser(s)
      profile == ProfileOf(u)
      row == NewRequest(profile, requestedId)
  IN /\ collab[s].mounted
     /\ requestedId \in collab[s].students
     /\ Len(collaboration_requests) < MaxRequests
     /\ IF InsertAccepted(u, row)
        THEN /\ collaboration_requests' = Append(collaboration_requests, row)
             /\ toast' = "Request sent"
             \* fetchRequests()
             /\ collab' = [collab EXCEPT
                             ![s].requests =
                               FetchedRequests(collaboration_requests', u, profile)]
        ELSE /\ toast' = "Error"
             /\ UNCHANGED <<collaboration_requests, collab>>
     /\ UNCHANGED <<totalPoints, console>>
     /\ UNCHANGED storeVars
     /\ UNCHANGED <<clock, facultyProfile, pendingDocs, actionLoading, inflight>>
     /\ UNCHANGED searchVars
     /\ UNCHANGED authVars

\* the insert of createRequest sent by user u with values of u's choosing
insertRequest(u, requester_id, requested_id) ==
  LET row == NewRequest(requester_id, requested_id)
  IN /\ u # NULL
     /\ Len(collaboration_requests) < MaxRequests
     /\ collaboration_requests' =
          IF InsertAccepted(u, row)
          THEN Append(collaboration_requests, row) ELSE collaboration_requests
     /\ UNCHANGED <<totalPoints, collab, console>>
     /\ UNCHANGED storeVars
     /\ UNCHANGED reviewVars
     /\ UNCHANGED searchVars
     /\ UNCHANGED authVars

\* the Accept and Decline buttons of a request card in session s
RespondShown(s, r) ==
  /\ r \in collab[s].requests
  /\ r.requester_id # ProfileOf(SessionUser(s))
  /\ r.status = "pending"

\* the table after .update({ status }).eq('id', requestId) as user u: rows
\* the UPDATE and SELECT policies hide are skipped without an error
RequestsAfterUpdate(u, requestId, status) ==
  IF /\ RequestAllowed("UPDATE", u, collaboration_requests[requestId])
     /\ RequestAllowed("SELECT", u, collaboration_requests[requestId])
  THEN [collaboration_requests EXCEPT ![requestId].status = status]
  ELSE collaboration_requests

\* updateRequestStatus(requestId, status) called in session s; the function
\* has no condition of its own, and `error` is null whenever the request
\* reached the store
updateRequestStatus(s, requestId, status) ==
  LET u == SessionUser(s)
      profile == ProfileOf(u)
  IN /\ collab[s].mounted
     /\ requestId \in DOMAIN collaboration_requests
     /\ collaboration_requests' = RequestsAfterUpdate(u, requestId, status)
     /\ toast' = "Request updated"
     \* fetchRequests()
     /\ collab' = [collab EXCEPT
                     ![s].requests =
                       FetchedRequests(collaboration_requests', u, profile)]
     /\ UNCHANGED <<totalPoints, console>>
     /\ UNCHANGED storeVars
     /\ UNCHANGED <<clock, facultyProfile, pendingDocs, actionLoading, inflight>>
     /\ UNCHANGED searchVars
     /\ UNCHANGED authVars

\* ------------------------------------------------------------------------
\* Sign-up and the profile of the Dashboard
\* ------------------------------------------------------------------------
\* the account types of the sign-up form
UserTypes == {"student", "faculty", "placement_officer"}

\* browser tabs of one user that load the Dashboard
Tabs == {1, 2}

\* gen_random_uuid(): ids a profiles row of user u can get
ProfileIdPool(u) ==
  CASE u = "uS1" -> {"pS1", "qS1"} [] u = "uS2" -> {"pS2", "qS2"}
    [] u = "uF1" -> {"pF1", "qF1"} [] u = "uF2" -> {"pF2", "qF2"}
    [] u = "uPO" -> {"pPO", "qPO"} [] u = "uNP" -> {"pNP", "qNP"}

FreshProfileId(u) == CHOOSE p \in ProfileIdPool(u) : p \notin DOMAIN profiles

\* the row both handle_new_user and fetchProfile insert; privacy_settings
\* takes the column default
NewProfile(u, user_type) ==
  [user_id |-> u, user_type |-> user_type, full_name |-> <<>>,
   email |-> <<>>, bio |-> <<>>, department |-> "", college |-> "",
   profile_visible |-> TRUE, skills_visible |-> TRUE]

\* a mutant of ProfileConstraints: the CHECK on user_type is missing
ProfileConstraints_NoCheck(row) ==
  \A p \in DOMAIN profiles : profiles[p].user_id # row.user_id

\* the constraints of public.profiles: user_id UNIQUE and
\* CHECK (user_type IN ('student', 'faculty'))
ProfileConstraints(row) ==
  /\ \A p \in DOMAIN profiles : profiles[p].user_id # row.user_id
  /\ row.user_type \in {"student", "faculty"}

\* the trigger on auth.users (SECURITY DEFINER: no row policies); a failed
\* insert fails the sign-up
handle_new_user(u, user_type) ==
  /\ auth_users[u] = NULL
  /\ IF user_type = "placement_officer"
     THEN /\ u \notin placement_officers
          /\ placement_officers' = placement_officers \cup {u}
          /\ UNCHANGED profiles
     ELSE /\ ProfileConstraints(NewProfile(u, user_type))
          /\ profiles' = WithRow(profiles, FreshProfileId(u),
                                 NewProfile(u, user_type))
          /\ UNCHANGED placement_officers
  /\ auth_users' = [auth_users EXCEPT ![u] = user_type]
  /\ UNCHANGED creating
  /\ UNCHANGED <<policies, documents, storage, nextDoc>>
  /\ UNCHANGED reviewVars
  /\ UNCHANGED searchVars
  /\ UNCHANGED pageVars

\* Dashboard.fetchProfile up to the answer of the select: the call goes on
\* to create a profile when .single() found no row (PGRST116); a found row
\* is only kept in the component
DashboardFetchProfile(u, tab) ==
  /\ auth_users[u] # NULL
  /\ <<u, tab>> \notin creating
  /\ ~\E p \in DOMAIN profiles :
        profiles[p].user_id = u /\ ProfileAllowed("SELECT", u, profiles[p])
  /\ creating' = creating \cup {<<u, tab>>}
  /\ UNCHANGED <<auth_users, placement_officers>>
  /\ UNCHANGED storeVars
  /\ UNCHANGED reviewVars
  /\ UNCHANGED searchVars
  /\ UNCHANGED pageVars

ProfileError == "Error fetching profile"

\* the rest of Dashboard.fetchProfile: the insert with
\* user_type: user.user_metadata?.user_type || 'student'
DashboardCreateProfile(u, tab) ==
  LET row == NewProfile(u, auth_users[u])
  IN /\ <<u, tab>> \in creating
     /\ creating' = creating \ {<<u, tab>>}
     /\ IF ProfileAllowed("INSERT", u, row) /\ ProfileConstraints(row)
        THEN /\ profiles' = WithRow(profiles, FreshProfileId(u), row)
             /\ UNCHANGED console
        ELSE /\ console' = ProfileError
             /\ UNCHANGED profiles
     /\ UNCHANGED <<auth_users, placement_officers>>
     /\ UNCHANGED <<policies, documents, storage, nextDoc>>
     /\ UNCHANGED reviewVars
     /\ UNCHANGED searchVars
     /\ UNCHANGED <<totalPoints, collaboration_requests, collab>>

\* ------------------------------------------------------------------------
\* Initial states
\* ------------------------------------------------------------------------
\* handle_new_user: one profiles row per student and faculty sign-up with the
\* default privacy_settings, one placement_officers row for uPO, none for uNP;
\* the other columns are as the owners left them in the ProfileEditor
InitProfiles ==
  [p \in ProfileIds |->
     [user_id |-> CASE p = "pS1" -> "uS1" [] p = "pS2" -> "uS2"
                    [] p = "pF1" -> "uF1" [] p = "pF2" -> "uF2",
      user_type |-> IF p \in {"pF1", "pF2"} THEN "faculty" ELSE "student",
      full_name |-> CASE p = "pS1" -> <<"A", "l">> [] p = "pS2" -> <<"a", "b">>
                      [] p = "pF1" -> <<"F", "a">> [] p = "pF2" -> <<"F", "b">>,
      email |-> CASE p = "pS1" -> <<"a", "l", "@", "x">>
                  [] p = "pS2" -> <<"a", "b", "@", "x">>
                  [] p = "pF1" -> <<"f", "a", "@", "x">>
                  [] p = "pF2" -> <<"f", "b", "@", "x">>,
      bio |-> IF p = "pS2" THEN <<"G", "o", "!">> ELSE <<>>,
      department |-> IF p = "pS2" THEN "EE" ELSE "CS",
      college |-> IF p = "pS2" THEN "South" ELSE "North",
      profile_visible |-> TRUE,
      skills_visible |-> TRUE]]

\* the account type each user signed up with
InitUsers ==
  [u \in Users |->
     CASE u \in {"uS1", "uS2", "uNP"} -> "student"
       [] u \in {"uF1", "uF2"} -> "faculty"
       [] u = "uPO" -> "placement_officer"]

\* no component is mounted and nobody is signed in to search
InitComponents ==
  /\ clock = 0
  /\ facultyProfile = [u \in Users |-> NULL]
  /\ pendingDocs = [u \in Users |-> {}]
  /\ actionLoading = [u \in Users |-> 0]
  /\ inflight = {}
  /\ toast = NoToast
  /\ component = NoComponent
  /\ students = <<>>
  /\ filteredStudents = <<>>
  /\ filters = DefaultFilters(NoComponent)
  /\ totalPoints = [u \in Users |-> 0]
  /\ collaboration_requests = <<>>
  /\ collab = [s \in Sessions |-> NotMounted]
  /\ console = NoMessage
  /\ auth_users = InitUsers
  /\ placement_officers = PlacementOfficers
  /\ creating = {}

\* the store once the users have signed up and before any upload
InitStore ==
  /\ profiles = InitProfiles
  /\ documents = [d \in {} |-> NewDocument(NULL, <<NULL, 0>>)]
  /\ storage = {}
  /\ nextDoc = 1

\* ------------------------------------------------------------------------
\* Spec: uploads and deletions by the students, reviews by two faculty
\* ------------------------------------------------------------------------
\* the store is set up either by the migration or by COMPLETE_RLS_FIX.sql
Init ==
  /\ policies \in {MigrationPolicies, CompleteFixPolicies}
  /\ InitStore
  /\ InitComponents
  /\ user = NULL

Next ==
  \/ \E u \in Students : handleFileUpload(u)
  \/ \E u \in Students, d \in DocIds, storageError \in BOOLEAN :
       handleDeleteDocument(u, d, storageError)
  \/ \E u \in Users : DocumentApprovalMount(u)
  \/ \E u \in Users, d \in DocIds, points \in PointsInputs :
       handleApproval(u, d, TRUE, NULL, points)
  \/ \E u \in Users, d \in DocIds, reason \in ReasonInputs :
       handleApproval(u, d, FALSE, reason, 0)
  \/ \E r \in inflight : handleApprovalResume(r)

Spec == Init /\ [][Next]_vars

\* ------------------------------------------------------------------------
\* SpecScore: the same operations with one faculty member reviewing
\* ------------------------------------------------------------------------
\* the store is set up by COMPLETE_RLS_FIX.sql, whose policies let a student
\* delete a document
InitScore ==
  /\ policies = CompleteFixPolicies
  /\ InitStore
  /\ InitComponents
  /\ user = NULL

NextScore ==
  \/ \E u \in Students : handleFileUpload(u)
  \/ \E u \in Students, d \in DocIds : handleDeleteDocument(u, d, FALSE)
  \/ DocumentApprovalMount("uF1")
  \/ \E d \in DocIds, points \in PointsInputs :
       handleApproval("uF1", d, TRUE, NULL, points)
  \/ \E d \in DocIds, reason \in ReasonInputs :
       handleApproval("uF1", d, FALSE, reason, 0)
  \/ \E r \in inflight : handleApprovalResume(r)

SpecScore == InitScore /\ [][NextScore]_vars

\* ------------------------------------------------------------------------
\* SpecPolicy: the policy scripts, uploads, and update requests by any user
\* ------------------------------------------------------------------------
InitPolicy ==
  /\ policies = MigrationPolicies
  /\ InitStore
  /\ InitComponents
  /\ user = NULL

NextPolicy ==
  \/ RunCompleteRlsFix
  \/ RunQuickFixStorage
  \/ \E u \in Students : handleFileUpload(u)
  \/ \E u \in Users, d \in DocIds, points \in PointsInputs :
       updateDocument(u, d, TRUE, NULL, points)
  \/ \E u \in Users, d \in DocIds, reason \in ReasonInputs :
       updateDocument(u, d, FALSE, reason, 0)

SpecPolicy == InitPolicy /\ [][NextPolicy]_vars

\* ------------------------------------------------------------------------
\* SpecSearch: one signed-in user searching while the students change their
\* privacy settings
\* ------------------------------------------------------------------------
\* the users whose session runs the search
SearchUsers == {"uS1", "uS2", "uF1", "uPO"}

\* the policies once the migration, or after it one of the two other scripts,
\* has run
QuickFixPolicies == (MigrationPolicies \ QuickFixDrops) \cup QuickFixCreates
PolicySetups == {MigrationPolicies, CompleteFixPolicies, QuickFixPolicies}

\* a document of student uS1 or uS2 that faculty uF1 approved at time `at`
ApprovedDocument(u, p, n, points, at) ==
  [NewDocument(p, <<u, n>>) EXCEPT
     !.status = "approved", !.approved_by = "pF1", !.approved_at = at,
     !.points_awarded = points]

\* document tables the reviews lead to: none, one or two approved documents
ReviewedTables ==
  {<<>>,
   <<ApprovedDocument("uS2", "pS2", 1, 30, 1)>>,
   <<ApprovedDocument("uS1", "pS1", 1, 30, 1),
     ApprovedDocument("uS2", "pS2", 2, 25, 2)>>}

InitSearch ==
  /\ policies \in PolicySetups
  /\ profiles = InitProfiles
  /\ documents \in ReviewedTables
  /\ storage = {documents[d].file : d \in DOMAIN documents}
  /\ nextDoc = Len(documents) + 1
  /\ InitComponents
  /\ user \in SearchUsers

NextSearch ==
  \/ \E u \in Students, key \in {"profile_visible", "skills_visible"},
        value \in BOOLEAN : updatePrivacySettings(u, key, value)
  \/ StudentSearchMount
  \/ PlacementDashboardMount
  \/ \E t \in SearchTerms : setSearchTerm(t)
  \/ \E x \in {"all", "", "CS", "EE"} : setSelectedDepartment(x)
  \/ \E x \in {"all", "", "North", "South"} : setSelectedCollege(x)
  \/ \E x \in {NoSkill("StudentSearch"), NoSkill("PlacementDashboard"),
               <<"G", "o">>, <<"S", "Q", "L">>} : setSelectedSkill(x)
  \/ clearFilters

SpecSearch == InitSearch /\ [][NextSearch]_vars

\* ------------------------------------------------------------------------
\* SpecSkills: searches by term and by skill while the students change
\* their privacy settings
\* ------------------------------------------------------------------------
NextSkills ==
  \/ \E u \in Students, key \in {"profile_visible", "skills_visible"},
        value \in BOOLEAN : updatePrivacySettings(u, key, value)
  \/ StudentSearchMount
  \/ PlacementDashboardMount
  \/ \E t \in SearchTerms : setSearchTerm(t)
  \/ \E x \in {NoSkill("StudentSearch"), NoSkill("PlacementDashboard"),
               <<"G", "o">>, <<"S", "Q", "L">>} : setSelectedSkill(x)

SpecSkills == InitSearch /\ [][NextSkills]_vars

\* ------------------------------------------------------------------------
\* SpecRanking: searches over students who chose their names freely
\* ------------------------------------------------------------------------
\* values the "Full Name" field of the ProfileEditor was given
NameInputs == {<<"A", "l">>, <<"a", "b">>}

\* the profiles after each student saved a name in the ProfileEditor; two
\* students may have the same name
NamedProfiles ==
  {[InitProfiles EXCEPT !["pS1"].full_name = n1, !["pS2"].full_name = n2] :
     n1 \in NameInputs, n2 \in NameInputs}

InitRanking ==
  /\ policies \in PolicySetups
  /\ profiles \in NamedProfiles
  /\ documents \in ReviewedTables
  /\ storage = {documents[d].file : d \in DOMAIN documents}
  /\ nextDoc = Len(documents) + 1
  /\ InitComponents
  /\ user \in SearchUsers

NextRanking ==
  \/ StudentSearchMount
  \/ PlacementDashboardMount
  \/ \E t \in SearchTerms : setSearchTerm(t)
  \/ \E x \in {"all", "", "CS", "EE"} : setSelectedDepartment(x)
  \/ \E x \in {"all", "", "North", "South"} : setSelectedCollege(x)
  \/ \E x \in {NoSkill("StudentSearch"), NoSkill("PlacementDashboard"),
               <<"G", "o">>, <<"S", "Q", "L">>} : setSelectedSkill(x)
  \/ clearFilters

SpecRanking == InitRanking /\ [][NextRanking]_vars

\* ------------------------------------------------------------------------
\* SpecLevel: the Analytics tab of students with reviewed documents
\* ------------------------------------------------------------------------
\* points_awarded is an integer column with no range check; these values
\* lie on both sides of every threshold of getPointsLevel
LevelPoints == {0, 49, 50, 199, 200, 499, 500, 999, 1000}

\* one approved document of each student
LevelTables ==
  {[d \in 1..2 |->
      [NewDocument(IF d = 1 THEN "pS1" ELSE "pS2",
                   <<IF d = 1 THEN "uS1" ELSE "uS2", d>>)
         EXCEPT !.status = "approved", !.approved_by = "pF1",
                !.approved_at = 1,
                !.points_awarded = IF d = 1 THEN p1 ELSE p2]] :
     p1 \in LevelPoints, p2 \in LevelPoints}

InitLevel ==
  /\ policies = CompleteFixPolicies
  /\ profiles = InitProfiles
  /\ documents \in LevelTables
  /\ storage = {documents[d].file : d \in DOMAIN documents}
  /\ nextDoc = Len(documents) + 1
  /\ InitComponents
  /\ user = NULL

NextLevel ==
  \/ \E u \in Students : AnalyticsDashboardMount(u)
  \/ \E u \in Students, d \in 1..2 : handleDeleteDocument(u, d, FALSE)

SpecLevel == InitLevel /\ [][NextLevel]_vars

\* ------------------------------------------------------------------------
\* SpecCollab: collaboration requests between the two students
\* ------------------------------------------------------------------------
\* a requested_id that is the id of no profile
NoSuchProfile == "pX"

InitCollab ==
  /\ policies \in {MigrationPolicies, CompleteFixPolicies}
  /\ InitStore
  /\ InitComponents
  /\ user = NULL

NextCollab ==
  \/ \E s \in Sessions : CollaborationRequestsMount(s)
  \/ \E s \in Sessions, requestedId \in ProfileIds :
       createRequest(s, requestedId)
  \/ \E u \in Students, requester_id \in {"pS1", "pS2"},
        requested_id \in {"pS1", "pS2", NoSuchProfile} :
       insertRequest(u, requester_id, requested_id)
  \/ \E s \in Sessions, requestId \in RequestIds, status \in StatusInputs :
       updateRequestStatus(s, requestId, status)

SpecCollab == InitCollab /\ [][NextCollab]_vars

\* ------------------------------------------------------------------------
\* SpecRespond: SpecCollab with one browser session for each user
\* ------------------------------------------------------------------------
RespondSessions == {"sD", "sE", "sT"}

NextRespond ==
  \/ \E s \in RespondSessions : CollaborationRequestsMount(s)
  \/ \E s \in RespondSessions, requestedId \in ProfileIds :
       createRequest(s, requestedId)
  \/ \E u \in Students, requester_id \in {"pS1", "pS2"},
        requested_id \in {"pS1", "pS2", NoSuchProfile} :
       insertRequest(u, requester_id, requested_id)
  \/ \E s \in RespondSessions, requestId \in RequestIds,
        status \in StatusInputs :
       updateRequestStatus(s, requestId, status)

SpecRespond == InitCollab /\ [][NextRespond]_vars

\* ------------------------------------------------------------------------
\* SpecDelete: uploads and deletions while the storage service may fail
\* ------------------------------------------------------------------------
InitDelete ==
  /\ policies \in PolicySetups
  /\ profiles = InitProfiles
  /\ documents \in ReviewedTables
  /\ storage = {documents[d].file : d \in DOMAIN documents}
  /\ nextDoc = Len(documents) + 1
  /\ InitComponents
  /\ user = NULL

NextDelete ==
  \/ \E u \in Students : handleFileUpload(u)
  \/ \E u \in Students, d \in DocIds, storageError \in BOOLEAN :
       handleDeleteDocument(u, d, storageError)

SpecDelete == InitDelete /\ [][NextDelete]_vars

\* ------------------------------------------------------------------------
\* SpecCreate: documents created through the upload form and by inserts
\* ------------------------------------------------------------------------
\* values an insert can give to the status column (CHECK (status IN ...))
StatusValues == {"pending", "approved"}

NextCreate ==
  \/ \E u \in Students : handleFileUpload(u)
  \/ \E u \in Users, student_id \in {"pS1", "pS2"}, status \in StatusValues,
        points \in PointsInputs :
       insertDocument(u, student_id, status, points)
  \/ \E u \in Students, d \in DocIds : handleDeleteDocument(u, d, FALSE)

SpecCreate == Init /\ [][NextCreate]_vars

\* ------------------------------------------------------------------------
\* SpecSignup: users sign up and load the Dashboard, from empty tables
\* ------------------------------------------------------------------------
SignupUsers == {"uS1", "uF1", "uPO"}

InitSignup ==
  /\ policies \in {MigrationPolicies, CompleteFixPolicies}
  /\ profiles = [p \in {} |-> NewProfile(NULL, NULL)]
  /\ documents = [d \in {} |-> NewDocument(NULL, <<NULL, 0>>)]
  /\ storage = {}
  /\ nextDoc = 1
  /\ clock = 0
  /\ facultyProfile = [u \in Users |-> NULL]
  /\ pendingDocs = [u \in Users |-> {}]
  /\ actionLoading = [u \in Users |-> 0]
  /\ inflight = {}
  /\ toast = NoToast
  /\ user = NULL
  /\ component = NoComponent
  /\ students = <<>>
  /\ filteredStudents = <<>>
  /\ filters = DefaultFilters(NoComponent)
  /\ totalPoints = [u \in Users |-> 0]
  /\ collaboration_requests = <<>>
  /\ collab = [s \in Sessions |-> NotMounted]
  /\ console = NoMessage
  /\ auth_users = [u \in Users |-> NULL]
  /\ placement_officers = {}
  /\ creating = {}

NextSignup ==
  \/ \E u \in SignupUsers, user_type \in UserTypes :
       handle_new_user(u, user_type)
  \/ \E u \in SignupUsers, tab \in Tabs : DashboardFetchProfile(u, tab)
  \/ \E u \in SignupUsers, tab \in Tabs : DashboardCreateProfile(u, tab)

SpecSignup == InitSignup /\ [][NextSignup]_vars

\* ------------------------------------------------------------------------
\* SpecFaculty: what one faculty user can do with the Dashboard and with
\* the update request of handleApproval
\* ------------------------------------------------------------------------
\* points outside the range of the approve form; points_awarded is an
\* integer column with no CHECK
OutOfRangePoints == {0 - 5, 150}

NextFaculty ==
  \/ \E u \in {"uS1", "uF1"} : handleFileUpload(u)
  \/ DocumentApprovalMount("uF1")
  \/ \E d \in DocIds, points \in PointsInputs :
       handleApproval("uF1", d, TRUE, NULL, points)
  \/ \E d \in DocIds, reason \in ReasonInputs :
       handleApproval("uF1", d, FALSE, reason, 0)
  \/ \E r \in inflight : handleApprovalResume(r)
  \/ \E d \in DocIds, points \in OutOfRangePoints :
       updateDocument("uF1", d, TRUE, NULL, points)

SpecFaculty == Init /\ [][NextFaculty]_vars

\* ------------------------------------------------------------------------
\* The document review state machine (C1 to C3 under Spec) and the score
\* (C4 and C5 under SpecScore)
\* ------------------------------------------------------------------------
ErrorToast == "Error processing document"

\* C1: when two reviewers' calls race on a pending document, the call whose
\* update reaches the store second is not applied and shows an error.
C1_RaceExactlyOneWins ==
  [][\A r \in inflight :
       (handleApprovalResume(r) /\ r.raced)
         => (documents' = documents /\ toast' = ErrorToast)]_vars

\* C2: a document that is approved or rejected keeps that status for as
\* long as it exists.
C2_StatusTerminal ==
  [][\A d \in DOMAIN documents \cap DOMAIN documents' :
       documents[d].status # "pending"
         => documents'[d].status = documents[d].status]_vars

\* C3: an approve call on an already approved document shows an error and
\* leaves the row and the owner's score as the first call left them.
C3_SecondApproveRejected ==
  [][\A r \in inflight :
       (/\ handleApprovalResume(r)
        /\ r.approved
        /\ r.doc \in DOMAIN documents
        /\ documents[r.doc].status = "approved")
         => (/\ toast' = ErrorToast
             /\ documents'[r.doc] = documents[r.doc]
             /\ AchievementPoints(documents', documents[r.doc].student_id)
                  = AchievementPoints(documents, documents[r.doc].student_id))]_vars

C5_ApprovePending ==
  [][\A r \in inflight :
       (/\ handleApprovalResume(r)
        /\ r.approved
        /\ r.doc \in DOMAIN documents
        /\ documents[r.doc].status = "pending")
         => LET owner == documents[r.doc].student_id
                before == AchievementPoints(documents, owner)
                after == AchievementPoints(documents', owner)
            IN /\ documents'[r.doc].status = "approved"
               /\ documents'[r.doc].approved_by = ProfileOf(r.who)
               /\ documents'[r.doc].points_awarded = r.points
               /\ after = before + r.points
               /\ (before = 0 /\ r.points = 30)
                    => (after = 30 /\ getPointsLevel(after) = "Newcomer")
               /\ (before = 30 /\ r.points = 25)
                    => (after = 55 /\ getPointsLevel(after) = "Beginner")]_vars

\* a student whose first document was approved with 30 and second with 25
C5_Witness ==
  \E d1, d2 \in DOMAIN documents :
    /\ documents[d1].student_id = documents[d2].student_id
    /\ documents[d1].status = "approved" /\ documents[d1].points_awarded = 30
    /\ documents[d2].status = "approved" /\ documents[d2].points_awarded = 25
    /\ documents[d1].approved_at < documents[d2].approved_at
    /\ documents[d1].approved_by \in {"pF1", "pF2"}
    /\ get_student_achievement_points(documents[d1].student_id) = 55
    /\ getPointsLevel(55) = "Beginner"

\* ------------------------------------------------------------------------
\* The row policies
\* ------------------------------------------------------------------------
\* an operation of user u on the documents table: an upload, a deletion or
\* an update request
DocumentOperation(u) ==
  \/ handleFileUpload(u)
  \/ \E d \in DocIds, storageError \in BOOLEAN :
       handleDeleteDocument(u, d, storageError)
  \/ \E d \in DocIds, points \in PointsInputs :
       updateDocument(u, d, TRUE, NULL, points)
  \/ \E d \in DocIds, reason \in ReasonInputs :
       updateDocument(u, d, FALSE, reason, 0)

\* C6: no operation of a user who is not faculty changes the status,
\* approved_by, approved_at, rejection_reason or points_awarded of a
\* document, whichever policy script ran last.
C6_NonFacultyNeverDecides ==
  [][\A u \in Users :
       (~IsFaculty(u) /\ DocumentOperation(u))
         => \A d \in DOMAIN documents \cap DOMAIN documents' :
              /\ documents'[d].status = documents[d].status
              /\ documents'[d].approved_by = documents[d].approved_by
              /\ documents'[d].approved_at = documents[d].approved_at
              /\ documents'[d].rejection_reason = documents[d].rejection_reason
              /\ documents'[d].points_awarded = documents[d].points_awarded]_vars

\* C7: a viewer can read a document exactly when the viewer owns it or is
\* faculty; another student, a placement officer, a user without a profile
\* and an unauthenticated caller are denied.
C7_DocumentReadOwnerOrFaculty ==
  \A viewer \in Users \cup {NULL}, d \in DOMAIN documents :
    DocAllowed("SELECT", viewer, documents[d])
      <=> (OwnsProfile(viewer, documents[d].student_id) \/ IsFaculty(viewer))

\* ------------------------------------------------------------------------
\* Profile visibility and the search (checked under SpecSearch)
\* ------------------------------------------------------------------------
\* C8: a signed-in viewer of any role who is not the owner can read a profile
\* exactly when its profile_visible is true, and the owner can read it
\* whatever the flag is.
C8_ProfileReadIffVisible ==
  \A viewer \in Users, p \in DOMAIN profiles :
    ProfileAllowed("SELECT", viewer, profiles[p])
      <=> (viewer = profiles[p].user_id \/ profiles[p].profile_visible)

\* a hidden profile that its owner reads and nobody else does, next to a
\* visible one that a student, a faculty member and a placement officer read
C8_Witness ==
  \E p, q \in DOMAIN profiles :
    /\ ~profiles[p].profile_visible
    /\ ProfileAllowed("SELECT", profiles[p].user_id, profiles[p])
    /\ \A viewer \in Users \ {profiles[p].user_id} :
         ~ProfileAllowed("SELECT", viewer, profiles[p])
    /\ profiles[q].user_type = "student"
    /\ profiles[q].profile_visible
    /\ \A viewer \in {profiles[p].user_id, "uF1", "uPO"} :
         ProfileAllowed("SELECT", viewer, profiles[q])

\* a search is run: a search component is mounted or one of its filters is
\* changed
SearchRun ==
  \/ StudentSearchMount
  \/ PlacementDashboardMount
  \/ \E t \in SearchTerms : setSearchTerm(t)
  \/ \E x \in DepartmentOptions \cup {NoDepartment(component)} :
       setSelectedDepartment(x)
  \/ \E x \in CollegeOptions \cup {NoDepartment(component)} :
       setSelectedCollege(x)
  \/ \E x \in SkillOptions \cup {NoSkill(component)} : setSelectedSkill(x)
  \/ clearFilters

\* C9: the result of a search, whatever its filters, never lists a student
\* other than the searcher whose profile_visible is false.
C9_HiddenStudentNeverListed ==
  [][SearchRun
       => \A i \in DOMAIN filteredStudents' :
            filteredStudents'[i].user_id # user
              => profiles[filteredStudents'[i].id].profile_visible]_vars

\* C10: the result of a search run by a student with no filter active lists
\* the student's own profile, also when its profile_visible is false.
C10_OwnProfileListed ==
  [][(/\ SearchRun
      /\ user \in Students
      /\ filters' = DefaultFilters(component'))
       => \E i \in DOMAIN filteredStudents' :
            filteredStudents'[i].user_id = user]_vars

\* ------------------------------------------------------------------------
\* The order of the search result (checked under SpecRanking)
\* ------------------------------------------------------------------------
\* UTF-16 code unit of the characters used in names
CodeUnit(c) ==
  IF IsUpperCase(c) THEN 64 + LetterIndex(c)
  ELSE IF LetterIndex(c) > 0 THEN 96 + LetterIndex(c)
  ELSE IF c = "@" THEN 64 ELSE 33

\* case-sensitive ordinal comparison of two strings: -1, 0 or 1
OrdinalCompare(a, b) ==
  LET n == IF Len(a) < Len(b) THEN Len(a) ELSE Len(b)
      diff == {i \in 1..n : CodeUnit(a[i]) # CodeUnit(b[i])}
      k == CHOOSE i \in diff : \A j \in diff : i <= j
  IN IF diff # {}
     THEN IF CodeUnit(a[k]) < CodeUnit(b[k]) THEN -1 ELSE 1
     ELSE IF Len(a) < Len(b) THEN -1
     ELSE IF Len(a) > Len(b) THEN 1 ELSE 0

FetchedIn(order, c) ==
  [i \in DOMAIN order |->
     StudentRow(user, order[i],
                IF c = "PlacementDashboard"
                THEN get_student_achievement_points(order[i])
                ELSE VisiblePoints(user, order[i]))]

\* C12: the ordered result of a search is the same for every order in which
\* the store returns the rows, also when students have equal points.
C12_RankingDeterministic ==
  [][(StudentSearchMount \/ PlacementDashboardMount)
       => \A order \in RowOrders(StudentProfiles(user)) :
            filterStudents(FetchedIn(order, component'),
                           DefaultFilters(component'), component')
              = filteredStudents']_vars

\* ------------------------------------------------------------------------
\* The level shown on the Analytics tab (checked under SpecLevel)
\* ------------------------------------------------------------------------
\* C13: for every total of 0 or more the level is Newcomer below 50,
\* Beginner from 50 below 200, Intermediate from 200 below 500, Advanced
\* from 500 below 1000 and Expert from 1000 on.
C13_LevelBands ==
  \A u \in Students :
    LET t == totalPoints[u]
    IN /\ t >= 0
       /\ level(u) = "Newcomer" <=> t < 50
       /\ level(u) = "Beginner" <=> (50 <= t /\ t < 200)
       /\ level(u) = "Intermediate" <=> (200 <= t /\ t < 500)
       /\ level(u) = "Advanced" <=> (500 <= t /\ t < 1000)
       /\ level(u) = "Expert" <=> 1000 <= t

\* one student's total is exactly the lowest threshold, the other's the
\* highest
C13_Witness ==
  /\ totalPoints["uS1"] = 50 /\ level("uS1") = "Beginner"
  /\ totalPoints["uS2"] = 1000 /\ level("uS2") = "Expert"

\* ------------------------------------------------------------------------
\* Collaboration requests (checked under SpecCollab)
\* ------------------------------------------------------------------------
\* C14: the status of a request changes only in a call by the user who owns
\* the profile named in requested_id; a call of updateRequestStatus by the
\* requester or by a third user leaves the table as it was.
C14_OnlyRequestedResponds ==
  [][/\ \A s \in Sessions, id \in RequestIds, st \in StatusInputs :
          (/\ id \in DOMAIN collaboration_requests
           /\ ~OwnsProfile(SessionUser(s), collaboration_requests[id].requested_id)
           /\ updateRequestStatus(s, id, st))
            => collaboration_requests' = collaboration_requests
     /\ \A id \in DOMAIN collaboration_requests :
          collaboration_requests'[id].status # collaboration_requests[id].status
            => \E s \in Sessions, st \in StatusInputs :
                 /\ OwnsProfile(SessionUser(s),
                                collaboration_requests[id].requested_id)
                 /\ updateRequestStatus(s, id, st)]_vars

\* the requester's session called updateRequestStatus on the request sent to
\* the other student, and the request is still pending
C14_Witness ==
  /\ Len(collaboration_requests) = 1
  /\ collaboration_requests[1] = NewRequest("pS1", "pS2")
  /\ toast = "Request updated"
  /\ collab["sD"].requests # {}
  /\ ~collab["sE"].mounted /\ ~collab["sT"].mounted

\* C15: once a request is accepted or declined its status never changes,
\* and every further call of updateRequestStatus on it, also from a session
\* that still shows it as pending, ends in an error.
C15_DecisionTerminal ==
  [][\A id \in DOMAIN collaboration_requests :
       collaboration_requests[id].status # "pending"
         => /\ collaboration_requests'[id].status
                 = collaboration_requests[id].status
            /\ \A s \in Sessions, st \in StatusInputs :
                 updateRequestStatus(s, id, st) => toast' = "Error"]_vars

\* C16: a call of updateRequestStatus by the requester of a pending request
\* ends in an error, never in the success toast.
C16_RequesterSeesError ==
  [][\A s \in Sessions, id \in RequestIds, st \in StatusInputs :
       (/\ updateRequestStatus(s, id, st)
        /\ collaboration_requests[id].status = "pending"
        /\ OwnsProfile(SessionUser(s), collaboration_requests[id].requester_id)
        /\ ~OwnsProfile(SessionUser(s), collaboration_requests[id].requested_id))
         => (toast' = "Error" /\ toast' # "Request updated")]_vars

\* C17: no request names one profile as requester and requested, every
\* requested_id is the id of a profile, and every request is stored with
\* the requester_id of the profile of the user who created it.
C17_RequestsWellFormed ==
  [][/\ \A id \in DOMAIN collaboration_requests' :
          /\ collaboration_requests'[id].requester_id
               # collaboration_requests'[id].requested_id
          /\ collaboration_requests'[id].requested_id \in DOMAIN profiles
     /\ \A u \in Users, a \in ProfileIds, b \in ProfileIds \cup {NoSuchProfile} :
          (/\ insertRequest(u, a, b)
           /\ collaboration_requests' # collaboration_requests)
            => a = ProfileOf(u)]_vars

\* ------------------------------------------------------------------------
\* Deleting and creating documents
\* ------------------------------------------------------------------------
\* C18: a deletion by the owning student removes the document whatever its
\* status, removes that row only, and leaves the owner's score equal to the
\* sum over the approved documents that remain, under the policies of the
\* migration as well as under those of COMPLETE_RLS_FIX.sql.
C18_OwnerDeleteRemoves ==
  [][\A u \in Students, d \in DocIds, e \in BOOLEAN :
       handleDeleteDocument(u, d, e)
         => /\ documents' = WithoutRow(documents, d)
            /\ get_student_achievement_points(ProfileOf(u))'
                 = AchievementPoints(WithoutRow(documents, d), ProfileOf(u))]_vars

\* C19 (checked under SpecDelete): when the removal of the stored file fails
\* after the row was deleted, the row stays deleted, the deletion ends with
\* the success toast, and the storage error is written to the console.
C19_StorageFailureReported ==
  [][\A u \in Students, d \in DocIds :
       (/\ d \in DOMAIN documents
        /\ DocAllowed("DELETE", u, documents[d])
        /\ handleDeleteDocument(u, d, TRUE))
         => /\ d \notin DOMAIN documents'
            /\ toast' = "Document deleted"
            /\ console' = StorageDeleteWarning
            /\ storage' = storage]_vars

\* a row was deleted, its file is still stored and the warning was written
C19_Witness ==
  /\ console = StorageDeleteWarning
  /\ toast = "Document deleted"
  /\ \E f \in storage : \A d \in DOMAIN documents : documents[d].file # f

\* C20 (checked under SpecCreate): every document is created with status
\* pending and with the student_id of the profile of the user who creates
\* it; no user creates a document of another profile.
C20_CreatedPendingAndOwned ==
  [][\A d \in DOMAIN documents' \ DOMAIN documents :
       /\ documents'[d].status = "pending"
       /\ \A u \in Users :
            (\/ handleFileUpload(u)
             \/ \E student_id \in {"pS1", "pS2"}, status \in StatusValues,
                   points \in PointsInputs :
                  insertDocument(u, student_id, status, points))
              => documents'[d].student_id = ProfileOf(u)]_vars

\* ------------------------------------------------------------------------
\* Roles (checked under SpecSignup)
\* ------------------------------------------------------------------------
\* C21: after any sequence of sign-ups and Dashboard loads a user has at
\* most one profiles row and never both a profiles row and a
\* placement_officers row.
C21_OneRole ==
  \A u \in Users :
    /\ Cardinality({p \in DOMAIN profiles : profiles[p].user_id = u}) <= 1
    /\ ~(u \in placement_officers
          /\ \E p \in DOMAIN profiles : profiles[p].user_id = u)

\* a placement officer loaded the Dashboard and the creation of a profile
\* was refused
C21_Witness ==
  /\ "uPO" \in placement_officers
  /\ auth_users["uPO"] = "placement_officer"
  /\ console = ProfileError
  /\ creating = {}
  /\ \E p \in DOMAIN profiles : TRUE

\* ------------------------------------------------------------------------
\* The columns a review writes
\* ------------------------------------------------------------------------
\* C22 (checked under SpecFaculty): the points_awarded of every document
\* are between 0 and 100; an approval that carries other points is refused
\* and leaves the document pending.
C22_PointsInRange ==
  \A d \in DOMAIN documents :
    /\ documents[d].points_awarded >= 0
    /\ documents[d].points_awarded <= 100

\* C23 (checked under Spec): a document carries a rejection_reason exactly
\* when its status is rejected; an approved or pending document carries
\* none.
C23_ReasonIffRejected ==
  \A d \in DOMAIN documents :
    TruthyText(documents[d].rejection_reason)
      <=> documents[d].status = "rejected"

\* C26 (checked under Spec): points_awarded is above 0 only on an approved
\* document; a pending or rejected document has 0 points, whatever the
\* order of the reviews.
C26_PointsOnlyApproved ==
  \A d \in DOMAIN documents :
    documents[d].points_awarded > 0 => documents[d].status = "approved"

\* C27 (checked under SpecPolicy): approved_by and approved_at are set
\* exactly on the documents whose status is approved or rejected, and
\* approved_by is then the id of a profile whose user_type is faculty.
C27_ReviewerRecorded ==
  \A d \in DOMAIN documents :
    /\ documents[d].status \in {"approved", "rejected"}
         <=> (documents[d].approved_by # NULL /\ documents[d].approved_at # 0)
    /\ documents[d].approved_by # NULL
         => /\ documents[d].approved_by \in DOMAIN profiles
            /\ profiles[documents[d].approved_by].user_type = "faculty"

\* C28 (checked under SpecFaculty): no document is approved or rejected by
\* its own owner: approved_by is never the document's student_id.
C28_NoSelfReview ==
  \A d \in DOMAIN documents :
    documents[d].approved_by # documents[d].student_id

\* ------------------------------------------------------------------------
\* The scores and skills a search shows
\* ------------------------------------------------------------------------
\* C24 (checked under SpecSearch): for every viewer, the achievement_points
\* of every student a search component fetched are the value of
\* get_student_achievement_points over the documents, whether StudentSearch
\* summed them or PlacementDashboard called the function.
C24_ScoreIsFunctionValue ==
  component # NoComponent =>
    \A i \in DOMAIN students :
      students[i].achievement_points
        = get_student_achievement_points(students[i].id)

\* the names in public.skills
SkillNames == {<<"G", "o">>, <<"S", "Q", "L">>}

\* the students whose student_skills rows user u is not to learn about
HiddenSkillStudents(u) ==
  {p \in DOMAIN profiles :
     /\ profiles[p].user_type = "student"
     /\ ~profiles[p].skills_visible
     /\ ~OwnsProfile(u, p)}

\* the student_skills tables that differ from the stored one only in the
\* rows of those students
SkillTables(u) ==
  {{r \in student_skills : r.student_id \notin HiddenSkillStudents(u)}
     \cup X :
   X \in SUBSET {[student_id |-> p, skill_name |-> n] :
                   p \in HiddenSkillStudents(u), n \in SkillNames}}

\* the rows fetchStudents would hold had student_skills been `table`
FetchedWith(table, order, c) ==
  [i \in DOMAIN order |->
     [FetchedIn(order, c)[i] EXCEPT
        !.skills = EmbeddedSkillsIn(table, user, order[i])]]

\* the search terms and skill filters a search is run with
SkillFilters(c) ==
  {[DefaultFilters(c) EXCEPT !.searchTerm = t, !.skill = k] :
     t \in SearchTerms, k \in SkillNames \cup {NoSkill(c)}}

C29_InFlightDisabled ==
  \A r \in inflight : actionLoading[r.who] = r.doc

====
